---------------------------- MODULE Spec2Model ----------------------------
(***************************************************************************)
(* A model of dune_bot.py: the Dune query poller (run_query), the          *)
(* conversation handlers of the two flows (top traders, trades) and the    *)
(* way the Application built in main() hands updates to them.              *)
(*                                                                         *)
(* Texts are sequences of one-character strings, so that str.strip(),      *)
(* len() and the datetime pattern are computed, not assumed.               *)
(*                                                                         *)
(* Spec is the bot with one user talking to it; SpecUsers is the bot with   *)
(* two users running trades flows side by side; SpecPoll is one call of    *)
(* run_query with its two timing arguments drawn from small sets, and      *)
(* SpecPollFair is SpecPoll with the worker thread always scheduled.  The  *)
(* token name lookup (get_token_name) never raises and changes nothing     *)
(* the handlers branch on, and is left out; calls of the chat transport    *)
(* (reply_text, edit_text, reply_document) are taken to succeed.           *)
(***************************************************************************)
EXTENDS Integers, Sequences, FiniteSets, TLC

\* ------------------------------------------------------------ bounds
\* The update queue of the Application holds at most MaxQueue updates.
MaxQueue == 1
\* Non-terminal answers of one execution that are explored one by one; an
\* execution that is still not finished after them is taken to stay pending
\* until the budget is used up (RunQueryStayPending).
MaxPending == 2

\* ------------------------------------------------ program constants
\* run_query(query_id, params, max_wait_minutes=30, poll_interval=5)
DEFAULT_MAX_WAIT_MINUTES == 30
DEFAULT_POLL_INTERVAL == 5
\* if not (32 <= len(ca) <= 44)
MIN_CA_LEN == 32
MAX_CA_LEN == 44
\* for row in rows[:20]
INLINE_ROWS == 20
\* if len(message) <= 4096
MAX_MESSAGE_LEN == 4096
\* len("\U0001F4CA Query Results:\n\n")
HEADER_LEN == 18
\* the characters of one rendered trade besides its four values
ROW_FIXED_LEN == 14

Users == {"u1", "u2"}

\* ------------------------------------------------------------- texts
Rep(c, n) == [i \in 1..n |-> c]

Whitespace == {" ", "\n", "\t"}
Digits == {"0", "1", "2", "3", "4", "5", "6", "7", "8", "9"}

RECURSIVE LStrip(_)
LStrip(s) == IF s = <<>> THEN s
             ELSE IF Head(s) \in Whitespace THEN LStrip(Tail(s)) ELSE s

RECURSIVE RStrip(_)
RStrip(s) == IF s = <<>> THEN s
             ELSE IF s[Len(s)] \in Whitespace
                  THEN RStrip(SubSeq(s, 1, Len(s) - 1)) ELSE s

\* str.strip()
Strip(s) == RStrip(LStrip(s))

\* r"^\d{4}-\d{2}-\d{2} \d{2}:\d{2}:\d{2}$", "d" standing for \d
DATETIME_PATTERN ==
    << "d", "d", "d", "d", "-", "d", "d", "-", "d", "d", " ",
       "d", "d", ":", "d", "d", ":", "d", "d" >>

PrefixMatches(s) ==
    \A i \in 1..Len(DATETIME_PATTERN) :
        IF DATETIME_PATTERN[i] = "d" THEN s[i] \in Digits
        ELSE s[i] = DATETIME_PATTERN[i]

\* DATETIME_PATTERN.match(s): "$" also matches before one final newline
PatternMatch(s) ==
    \/ Len(s) = Len(DATETIME_PATTERN) /\ PrefixMatches(s)
    \/ /\ Len(s) = Len(DATETIME_PATTERN) + 1
       /\ s[Len(s)] = "\n"
       /\ PrefixMatches(s)

\* the upper limit of the length left out
ValidCaLen_NoUpperLimit(ca) == MIN_CA_LEN <= Len(ca)

\* 32 <= len(ca) <= 44
ValidCaLen(ca) == MIN_CA_LEN <= Len(ca) /\ Len(ca) <= MAX_CA_LEN

\* --------------------------------------------- texts a user may send
CA_A == Rep("A", 32)
CA_B == <<" ">> \o Rep("B", 44) \o <<"\n">>
CA_SHORT == <<" ">> \o Rep("C", 31)
CA_LONG == Rep("D", 45)
TS_1 == << "2", "0", "2", "5", "-", "0", "9", "-", "0", "1", " ",
           "0", "0", ":", "0", "0", ":", "0", "0" >>
TS_2 == << " ", "2", "0", "2", "5", "-", "0", "9", "-", "0", "5", " ",
           "2", "3", ":", "5", "9", ":", "5", "9", "\n" >>
TS_DATE == << "2", "0", "2", "5", "-", "0", "9", "-", "0", "1" >>
TS_T == << "2", "0", "2", "5", "-", "0", "9", "-", "0", "1", "T",
           "0", "0", ":", "0", "0", ":", "0", "0" >>

Texts == {CA_A, CA_B, CA_SHORT, CA_LONG, TS_1, TS_2, TS_DATE, TS_T}

\* ------------------------------------------------- remote responses
NonTerminalStates == {"QUERY_STATE_PENDING", "QUERY_STATE_RUNNING"}
FailedStates == {"QUERY_STATE_FAILED", "QUERY_STATE_CANCELLED"}
ExecutionStates ==
    NonTerminalStates \cup {"QUERY_STATE_COMPLETED"} \cup FailedStates

\* What requests gives back: r.raise_for_status() passes (ok) and r.json()
\* is the body, or the request fails (a connection error, an HTTP error).
Ok(json) == [ok |-> TRUE, json |-> json]
HttpError == [ok |-> FALSE, json |-> <<>>]

ExecuteResponses == {Ok([execution_id |-> "01"]), HttpError}
StatusResponses == {Ok([state |-> s]) : s \in ExecutionStates} \cup {HttpError}

VARIABLES conv, user_data, queue, run, out

vars == <<conv, user_data, queue, run, out>>


\* ------------------------------------------------------- Python dicts
\* A dict is a function on its keys; {} is the function on no key.
EmptyDict == <<>>
\* d.get(k, default)
Get(d, k, default) == IF k \in DOMAIN d THEN d[k] ELSE default
\* d[k] = v
DictSet(d, k, v) ==
    [x \in (DOMAIN d) \cup {k} |-> IF x = k THEN v ELSE d[x]]

\* ------------------------------------------------- result payloads
\* A row carries its number and the total length of the four values the
\* trades view renders (trade_date, trader_id, token_bought_symbol,
\* amount_usd); all rows of one result have the same columns.
Rows(n, w) == [i \in 1..n |-> [n |-> i, width |-> w]]

ResultPayload(rows) == [result |-> [rows |-> rows]]

\* the JSON bodies get_results may return
ResultPayloads ==
    { EmptyDict,
      ResultPayload(<<>>),
      ResultPayload(Rows(1, 80)),
      ResultPayload(Rows(25, 80)),
      ResultPayload(Rows(25, 200)),
      ResultPayload(Rows(19, 189) \o <<[n |-> 20, width |-> 207]>>) }

FetchResponses == {Ok(p) : p \in ResultPayloads} \cup {HttpError}

\* ------------------------------------------------------------ run_query
\* One call of run_query, running in the worker thread that
\* asyncio.to_thread gave it.  handler is the coroutine awaiting it.
\* fetched and ret hold no value (<<>>) or one (<<v>>).
IdleRun ==
    [ handler |-> "none", pc |-> "idle", query_id |-> "none",
      params |-> EmptyDict, max_wait_minutes |-> 0, poll_interval |-> 0,
      waited |-> 0, nSubmit |-> 0, nStatus |-> 0, nSleep |-> 0,
      nFetch |-> 0, obs |-> <<>>, fetched |-> <<>>, ret |-> <<>>,
      err |-> "none" ]

\* the call itself: arguments bound, nothing executed yet
RunQueryCall(handler, query_id, params, max_wait_minutes, poll_interval) ==
    [ IdleRun EXCEPT !.handler = handler, !.pc = "execute_query",
                     !.query_id = query_id, !.params = params,
                     !.max_wait_minutes = max_wait_minutes,
                     !.poll_interval = poll_interval ]

Raise(r, e) == [r EXCEPT !.pc = "raised", !.err = e]

\* exec_response = execute_query(query_id, params); waited = 0
AfterExecute(r, resp) ==
    LET r1 == [r EXCEPT !.nSubmit = @ + 1]
    IN  IF ~resp.ok THEN Raise(r1, "TransportError")
        ELSE [r1 EXCEPT !.pc = "while", !.waited = 0]

\* the loop test with <= for <
LoopCond_Inclusive(r) == r.waited <= r.max_wait_minutes * 60

\* the budget tested ahead of the sleep that would use it up
LoopCond_Preemptive(r) ==
    r.waited + r.poll_interval < r.max_wait_minutes * 60

\* while waited < max_wait_minutes * 60
LoopCond(r) == r.waited < r.max_wait_minutes * 60

\* the completed state misspelt, so that it is taken for a pending one
IsCompleted_Misspelt(state) == state = "QUERY_STATE_COMPLETE"

\* state == "QUERY_STATE_COMPLETED"
IsCompleted(state) == state = "QUERY_STATE_COMPLETED"

\* FAILED left out of the list of failed states
IsFailed_OnlyCancelled(state) == state \in {"QUERY_STATE_CANCELLED"}

\* state in ["QUERY_STATE_FAILED", "QUERY_STATE_CANCELLED"]
IsFailed(state) ==
    state \in {"QUERY_STATE_FAILED", "QUERY_STATE_CANCELLED"}

\* the results fetched for a failed or cancelled execution as well
AfterStatus_FetchOnFailed(r, resp) ==
    LET r1 == [r EXCEPT !.nStatus = @ + 1]
    IN  IF ~resp.ok THEN Raise(r1, "TransportError")
        ELSE LET state == resp.json.state
                 r2 == [r1 EXCEPT !.obs = Append(@, state)]
             IN  IF IsCompleted(state) \/ IsFailed(state)
                 THEN [r2 EXCEPT !.pc = "get_results"]
                 ELSE [r2 EXCEPT !.pc = "sleep"]

\* status = get_status(execution_id) and the branch on its state
AfterStatus(r, resp) ==
    LET r1 == [r EXCEPT !.nStatus = @ + 1]
    IN  IF ~resp.ok THEN Raise(r1, "TransportError")
        ELSE LET state == resp.json.state
                 r2 == [r1 EXCEPT !.obs = Append(@, state)]
             IN  IF IsCompleted(state) THEN [r2 EXCEPT !.pc = "get_results"]
                 ELSE IF IsFailed(state) THEN Raise(r2, "QueryFailed")
                 ELSE [r2 EXCEPT !.pc = "sleep"]

\* waited += 1 for waited += poll_interval
AfterSleep_CountsIterations(r) ==
    [r EXCEPT !.pc = "while", !.nSleep = @ + 1, !.waited = @ + 1]

\* the sleep made, its interval never added to waited
AfterSleep_NoAccumulate(r) ==
    [r EXCEPT !.pc = "while", !.nSleep = @ + 1]

\* time.sleep(poll_interval); waited += poll_interval
AfterSleep(r) ==
    [r EXCEPT !.pc = "while", !.nSleep = @ + 1,
              !.waited = @ + r.poll_interval]

\* return get_results(execution_id)
AfterResults(r, resp) ==
    LET r1 == [r EXCEPT !.nFetch = @ + 1]
    IN  IF ~resp.ok THEN Raise(r1, "TransportError")
        ELSE [r1 EXCEPT !.pc = "returned", !.fetched = <<resp.json>>,
                        !.ret = <<resp.json>>]

\* raise TimeoutError("Query did not finish within allowed time")
AfterLoop(r) == Raise(r, "TimeoutError")

\* n more turns of the loop in which the status check answers PENDING:
\* each one check and one sleep of poll_interval
PendingTurns(r, n) ==
    [r EXCEPT !.pc = "while",
              !.nStatus = @ + n,
              !.obs = @ \o [i \in 1..n |-> "QUERY_STATE_PENDING"],
              !.nSleep = @ + n,
              !.waited = @ + n * r.poll_interval]

\* the loop against an execution that stays pending, up to the first turn
\* at which the loop test fails
StayPending(r) ==
    LET n == CHOOSE n \in 0..(r.max_wait_minutes * 60 + 1) :
                 /\ ~LoopCond(PendingTurns(r, n))
                 /\ n > 0 => LoopCond(PendingTurns(r, n - 1))
    IN  PendingTurns(r, n)

RunQueryExecute(u) ==
    /\ run[u].pc = "execute_query"
    /\ \E resp \in ExecuteResponses :
           run' = [run EXCEPT ![u] = AfterExecute(@, resp)]
    /\ UNCHANGED <<conv, user_data, queue, out>>

RunQueryStatus(u) ==
    /\ run[u].pc = "while"
    /\ LoopCond(run[u])
    /\ \E resp \in StatusResponses :
           /\ (resp.ok /\ resp.json.state \in NonTerminalStates) =>
                  Len(run[u].obs) < MaxPending
           /\ run' = [run EXCEPT ![u] = AfterStatus(@, resp)]
    /\ UNCHANGED <<conv, user_data, queue, out>>

RunQuerySleep(u) ==
    /\ run[u].pc = "sleep"
    /\ run' = [run EXCEPT ![u] = AfterSleep(@)]
    /\ UNCHANGED <<conv, user_data, queue, out>>

RunQueryResults(u) ==
    /\ run[u].pc = "get_results"
    /\ \E resp \in FetchResponses :
           run' = [run EXCEPT ![u] = AfterResults(@, resp)]
    /\ UNCHANGED <<conv, user_data, queue, out>>

\* a loop that also ends when a Cancel press of the user is waiting
RunQueryTimeout_OnCancelToo(u) ==
    /\ run[u].pc = "while"
    /\ \/ ~LoopCond(run[u])
       \/ \E i \in 1..Len(queue) :
              queue[i].user = u /\ queue[i].data = "cancel"
    /\ run' = [run EXCEPT ![u] = AfterLoop(@)]
    /\ UNCHANGED <<conv, user_data, queue, out>>

RunQueryTimeout(u) ==
    /\ run[u].pc = "while"
    /\ ~LoopCond(run[u])
    /\ run' = [run EXCEPT ![u] = AfterLoop(@)]
    /\ UNCHANGED <<conv, user_data, queue, out>>

RunQueryStayPending(u) ==
    /\ run[u].pc = "while"
    /\ LoopCond(run[u])
    /\ run' = [run EXCEPT ![u] = StayPending(@)]
    /\ UNCHANGED <<conv, user_data, queue, out>>

\* a step of the worker thread running run_query for u
RunQuery(u) ==
    \/ RunQueryExecute(u)
    \/ RunQueryStatus(u)
    \/ RunQuerySleep(u)
    \/ RunQueryResults(u)
    \/ RunQueryTimeout(u)
    \/ RunQueryStayPending(u)

\* ---------------------------------------------------- conversation
END == "END"
ASK_CA_TOP == "ASK_CA_TOP"
ASK_CA_TRADES == "ASK_CA_TRADES"
ASK_START == "ASK_START"
ASK_END == "ASK_END"

\* what a handler invocation sent: new messages (replies), the text now
\* shown in the message that carries the Cancel button (status), files
NoOut == [replies |-> <<>>, status |-> "none", file |-> <<>>]

\* ----------------------------------------------------------- updates
\* An update of the chat transport: a command, a button press (callback
\* query, with its callback_data) or a text message.  sentAt notes, for a
\* Cancel press, how many status checks the sender's own poll had made when
\* the press arrived, and is -1 when no poll of the sender was in flight.
CallbackData == {"top_traders", "trades", "help", "cancel"}

Command(u) ==
    [user |-> u, kind |-> "command", data |-> "start", text |-> <<>>,
     sentAt |-> -1]
Callback(u, d, at) ==
    [user |-> u, kind |-> "callback", data |-> d, text |-> <<>>,
     sentAt |-> at]
Message(u, t) ==
    [user |-> u, kind |-> "text", data |-> "", text |-> t, sentAt |-> -1]

InFlight(u) == run[u].pc \notin {"idle"}

UpdatesOf(u) ==
    {Command(u)}
        \cup {Callback(u, d, -1) : d \in CallbackData \ {"cancel"}}
        \cup {Callback(u, "cancel",
                       IF InFlight(u) THEN run[u].nStatus ELSE -1)}
        \cup {Message(u, t) : t \in Texts}

\* The Updater puts an incoming update on the Application's update queue;
\* it does so at any time, also while a handler is awaited.
Deliver(u) ==
    /\ Len(queue) < MaxQueue
    /\ \E upd \in UpdatesOf(u) : queue' = Append(queue, upd)
    /\ UNCHANGED <<conv, user_data, run, out>>

\* ---------------------------------------------------------- dispatch
\* main() builds the Application with Application.builder().token(..)
\* .build(), that is without concurrent_updates, and every handler with
\* the default block=True.  The Application then awaits the handler of one
\* update before it takes the next update off its queue; a handler that
\* awaits asyncio.to_thread(run_query, ..) has not returned, so while a
\* query is polled the event loop is free (the Updater keeps filling the
\* queue) but no update of any user is processed.
ApplicationFree == \A u \in Users : run[u].handler = "none"

\* the update about to be processed is upd, sent by u
Processing(u) ==
    /\ ApplicationFree
    /\ queue # <<>>
    /\ Head(queue).user = u

Reply(kind) == [NoOut EXCEPT !.replies = <<kind>>]

\* CommandHandler("start", start), ahead of the conversation in group 0
Start(u) ==
    /\ Processing(u)
    /\ Head(queue).kind = "command"
    /\ queue' = Tail(queue)
    /\ out' = [out EXCEPT ![u] = Reply("welcome")]
    /\ UNCHANGED <<conv, user_data, run>>

\* entry_points=[CallbackQueryHandler(button_handler)]: any button press
\* of a user who is in no conversation
ButtonHandlerNext(data) ==
    IF data = "top_traders" THEN ASK_CA_TOP
    ELSE IF data = "trades" THEN ASK_CA_TRADES
    ELSE IF data = "help" THEN END
    ELSE "None"

ButtonHandlerOut(data) ==
    IF data \in {"top_traders", "trades"} THEN Reply("ask_ca")
    ELSE IF data = "help" THEN Reply("help")
    ELSE NoOut

\* ConversationHandler._update_state: END ends the conversation, None
\* leaves its state as it was, any other value becomes the state
UpdateState(old, new) == IF new = "None" THEN old ELSE new

ButtonHandler(u) ==
    /\ Processing(u)
    /\ Head(queue).kind = "callback"
    /\ conv[u] = END
    /\ queue' = Tail(queue)
    /\ conv' = [conv EXCEPT
                   ![u] = UpdateState(@, ButtonHandlerNext(Head(queue).data))]
    /\ out' = [out EXCEPT ![u] = ButtonHandlerOut(Head(queue).data)]
    /\ UNCHANGED <<user_data, run>>

\* MessageHandler(filters.TEXT & ~filters.COMMAND, h) of state st
TextIn(u, st) ==
    /\ Processing(u)
    /\ Head(queue).kind = "text"
    /\ conv[u] = st

\* ca = update.message.text.strip(); if not (32 <= len(ca) <= 44)
CaOf(text) == Strip(text)
CaAccepted(text) == ValidCaLen(CaOf(text))

\* the status message, sent with the Cancel button
Running == [NoOut EXCEPT !.status = "running"]

\* handle_ca_top up to the await of run_query
HandleCaTop(u) ==
    /\ TextIn(u, ASK_CA_TOP)
    /\ queue' = Tail(queue)
    /\ IF ~CaAccepted(Head(queue).text)
       THEN /\ out' = [out EXCEPT ![u] = Reply("invalid_ca")]
            /\ conv' = [conv EXCEPT ![u] = END]
            /\ UNCHANGED run
       ELSE /\ out' = [out EXCEPT ![u] = Running]
            /\ run' = [run EXCEPT ![u] =
                          RunQueryCall("handle_ca_top", "TOP_TRADERS_QUERY",
                                       [CA |-> CaOf(Head(queue).text)],
                                       DEFAULT_MAX_WAIT_MINUTES,
                                       DEFAULT_POLL_INTERVAL)]
            /\ UNCHANGED conv
    /\ UNCHANGED user_data

\* rows = results.get("result", {}).get("rows", [])
RowsOf(results) == Get(Get(results, "result", EmptyDict), "rows", <<>>)

\* except Exception as e: await status_msg.edit_text(f"Error: {e}")
ErrorNotice(e) == "error"

\* a TimeoutError taken for a query without rows
TopTradersOut_TimeoutAsNoResults(r) ==
    IF r.pc = "raised"
    THEN IF r.err = "TimeoutError"
         THEN [Running EXCEPT !.status = "no_results"]
         ELSE [Running EXCEPT !.status = ErrorNotice(r.err)]
    ELSE IF RowsOf(r.ret[1]) = <<>>
         THEN [Running EXCEPT !.status = "no_results"]
         ELSE [Running EXCEPT !.status = "results"]

\* handle_ca_top from the return of run_query on
TopTradersOut(r) ==
    IF r.pc = "raised" THEN [Running EXCEPT !.status = ErrorNotice(r.err)]
    ELSE IF RowsOf(r.ret[1]) = <<>>
         THEN [Running EXCEPT !.status = "no_results"]
         ELSE [Running EXCEPT !.status = "results"]

HandleCaTopFinish(u) ==
    /\ run[u].handler = "handle_ca_top"
    /\ run[u].pc \in {"returned", "raised"}
    /\ out' = [out EXCEPT ![u] = TopTradersOut(run[u])]
    /\ conv' = [conv EXCEPT ![u] = END]
    /\ run' = [run EXCEPT ![u] = IdleRun]
    /\ UNCHANGED <<user_data, queue>>

\* ask_start storing the address in one dict shared by all users
\* (context.bot_data for context.user_data)
AskStart_SharedStore(u) ==
    /\ TextIn(u, ASK_CA_TRADES)
    /\ queue' = Tail(queue)
    /\ IF ~CaAccepted(Head(queue).text)
       THEN /\ out' = [out EXCEPT ![u] = Reply("invalid_ca")]
            /\ conv' = [conv EXCEPT ![u] = END]
            /\ UNCHANGED user_data
       ELSE /\ user_data' = [v \in Users |->
                  DictSet(user_data[v], "contract_address",
                          CaOf(Head(queue).text))]
            /\ out' = [out EXCEPT ![u] = Reply("ask_start_time")]
            /\ conv' = [conv EXCEPT ![u] = ASK_START]
    /\ UNCHANGED run

\* ask_start
AskStart(u) ==
    /\ TextIn(u, ASK_CA_TRADES)
    /\ queue' = Tail(queue)
    /\ IF ~CaAccepted(Head(queue).text)
       THEN /\ out' = [out EXCEPT ![u] = Reply("invalid_ca")]
            /\ conv' = [conv EXCEPT ![u] = END]
            /\ UNCHANGED user_data
       ELSE /\ user_data' = [user_data EXCEPT ![u] =
                  DictSet(@, "contract_address", CaOf(Head(queue).text))]
            /\ out' = [out EXCEPT ![u] = Reply("ask_start_time")]
            /\ conv' = [conv EXCEPT ![u] = ASK_START]
    /\ UNCHANGED run

\* t = update.message.text.strip(); DATETIME_PATTERN.match(t)
TimeOf(text) == Strip(text)

\* only the length of the text compared with that of a timestamp
TimeAccepted_LengthOnly(text) == Len(TimeOf(text)) = Len(DATETIME_PATTERN)

TimeAccepted(text) == PatternMatch(TimeOf(text))

\* ask_end keeping a start time the store already holds
\* (user_data.setdefault for the assignment)
AskEnd_KeepsStoredStart(u) ==
    /\ TextIn(u, ASK_START)
    /\ queue' = Tail(queue)
    /\ IF ~TimeAccepted(Head(queue).text)
       THEN /\ out' = [out EXCEPT ![u] = Reply("invalid_format")]
            /\ conv' = [conv EXCEPT ![u] = ASK_START]
            /\ UNCHANGED user_data
       ELSE /\ user_data' = [user_data EXCEPT ![u] =
                  IF "start_time" \in DOMAIN @ THEN @
                  ELSE DictSet(@, "start_time", TimeOf(Head(queue).text))]
            /\ out' = [out EXCEPT ![u] = Reply("ask_end_time")]
            /\ conv' = [conv EXCEPT ![u] = ASK_END]
    /\ UNCHANGED run

\* ask_end
AskEnd(u) ==
    /\ TextIn(u, ASK_START)
    /\ queue' = Tail(queue)
    /\ IF ~TimeAccepted(Head(queue).text)
       THEN /\ out' = [out EXCEPT ![u] = Reply("invalid_format")]
            /\ conv' = [conv EXCEPT ![u] = ASK_START]
            /\ UNCHANGED user_data
       ELSE /\ user_data' = [user_data EXCEPT ![u] =
                  DictSet(@, "start_time", TimeOf(Head(queue).text))]
            /\ out' = [out EXCEPT ![u] = Reply("ask_end_time")]
            /\ conv' = [conv EXCEPT ![u] = ASK_END]
    /\ UNCHANGED run

\* the params dict of the trades query
TradesParams(ca, start_time, end_time) ==
    ("contract address" :> ca) @@ ("start time" :> start_time)
        @@ ("end time" :> end_time)

\* fetch_trades up to the await of run_query
FetchTrades(u) ==
    /\ TextIn(u, ASK_END)
    /\ queue' = Tail(queue)
    /\ IF ~TimeAccepted(Head(queue).text)
       THEN /\ out' = [out EXCEPT ![u] = Reply("invalid_format")]
            /\ conv' = [conv EXCEPT ![u] = ASK_END]
            /\ UNCHANGED <<user_data, run>>
       ELSE LET d == DictSet(user_data[u], "end_time",
                             TimeOf(Head(queue).text))
            IN  /\ user_data' = [user_data EXCEPT ![u] = d]
                /\ out' = [out EXCEPT ![u] = Running]
                /\ run' = [run EXCEPT ![u] =
                       RunQueryCall("fetch_trades", "TRADES_QUERY",
                                    TradesParams(d["contract_address"],
                                                 d["start_time"],
                                                 d["end_time"]),
                                    DEFAULT_MAX_WAIT_MINUTES,
                                    DEFAULT_POLL_INTERVAL)]
                /\ UNCHANGED conv

\* rows[:20]
InlineRows(rows) ==
    SubSeq(rows, 1, IF Len(rows) < INLINE_ROWS THEN Len(rows) ELSE INLINE_ROWS)

\* len(message) of the text built from the header and rows[:20]
RECURSIVE RenderedLen(_)
RenderedLen(rows) ==
    IF rows = <<>> THEN HEADER_LEN
    ELSE RenderedLen(SubSeq(rows, 1, Len(rows) - 1))
             + ROW_FIXED_LEN + rows[Len(rows)].width

MessageLen(rows) == RenderedLen(InlineRows(rows))

\* if len(message) <= 4096
FitsInline(rows) == MessageLen(rows) <= MAX_MESSAGE_LEN

\* the file written from the rows shown inline only
CsvExport_InlineRowsOnly(rows) ==
    [header |-> DOMAIN rows[1], records |-> InlineRows(rows)]

\* csv.DictWriter: the header from rows[0].keys(), then writerows(rows)
CsvExport(rows) ==
    [header |-> DOMAIN rows[1], records |-> rows]

\* fetch_trades without its "if not rows" branch: rows[0] of no rows raises
\* inside the try, and the except branch reports it
TradesOut_NoEmptyGuard(r) ==
    IF r.pc = "raised" THEN [Running EXCEPT !.status = ErrorNotice(r.err)]
    ELSE LET rows == RowsOf(r.ret[1])
         IN  IF rows = <<>>
             THEN [Running EXCEPT !.status = ErrorNotice("IndexError")]
             ELSE [Running EXCEPT
                      !.status = IF FitsInline(rows) THEN "results"
                                 ELSE "too_large",
                      !.file = <<CsvExport(rows)>>]

\* the file sent only in the else branch of the length test
TradesOut_FileOnlyWhenTooLarge(r) ==
    IF r.pc = "raised" THEN [Running EXCEPT !.status = ErrorNotice(r.err)]
    ELSE LET rows == RowsOf(r.ret[1])
         IN  IF rows = <<>>
             THEN [Running EXCEPT !.status = "no_results"]
             ELSE IF FitsInline(rows)
                  THEN [Running EXCEPT !.status = "results"]
                  ELSE [Running EXCEPT !.status = "too_large",
                                       !.file = <<CsvExport(rows)>>]

\* fetch_trades from the return of run_query on
TradesOut(r) ==
    IF r.pc = "raised" THEN [Running EXCEPT !.status = ErrorNotice(r.err)]
    ELSE LET rows == RowsOf(r.ret[1])
         IN  IF rows = <<>>
             THEN [Running EXCEPT !.status = "no_results"]
             ELSE [Running EXCEPT
                      !.status = IF FitsInline(rows) THEN "results"
                                 ELSE "too_large",
                      !.file = <<CsvExport(rows)>>]

FetchTradesFinish(u) ==
    /\ run[u].handler = "fetch_trades"
    /\ run[u].pc \in {"returned", "raised"}
    /\ out' = [out EXCEPT ![u] = TradesOut(run[u])]
    /\ conv' = [conv EXCEPT ![u] = END]
    /\ run' = [run EXCEPT ![u] = IdleRun]
    /\ UNCHANGED <<user_data, queue>>

\* fallbacks=[CallbackQueryHandler(cancel_callback, pattern="^cancel$")]:
\* tried for a user in a conversation whose state has no handler for the
\* update
CancelCallback(u) ==
    /\ Processing(u)
    /\ Head(queue).kind = "callback"
    /\ Head(queue).data = "cancel"
    /\ conv[u] # END
    /\ queue' = Tail(queue)
    /\ out' = [out EXCEPT ![u] = [NoOut EXCEPT !.status = "cancelled"]]
    /\ conv' = [conv EXCEPT ![u] = END]
    /\ UNCHANGED <<user_data, run>>

\* no handler of the Application takes the update: a text of a user in no
\* conversation, another button than Cancel pressed inside one
Unhandled(u) ==
    /\ Processing(u)
    /\ \/ Head(queue).kind = "text" /\ conv[u] = END
       \/ /\ Head(queue).kind = "callback"
          /\ Head(queue).data # "cancel"
          /\ conv[u] # END
    /\ queue' = Tail(queue)
    /\ UNCHANGED <<conv, user_data, run, out>>

Init ==
    /\ conv = [u \in Users |-> END]
    /\ user_data = [u \in Users |-> EmptyDict]
    /\ queue = <<>>
    /\ run = [u \in Users |-> IdleRun]
    /\ out = [u \in Users |-> NoOut]

\* the users who talk to the bot
Senders == {"u1"}

Next ==
    \E u \in Senders :
        \/ Deliver(u)
        \/ Start(u)
        \/ ButtonHandler(u)
        \/ HandleCaTop(u)
        \/ HandleCaTopFinish(u)
        \/ AskStart(u)
        \/ AskEnd(u)
        \/ FetchTrades(u)
        \/ FetchTradesFinish(u)
        \/ CancelCallback(u)
        \/ Unhandled(u)
        \/ RunQueryExecute(u)
        \/ RunQueryStatus(u)
        \/ RunQuerySleep(u)
        \/ RunQueryResults(u)
        \/ RunQueryTimeout(u)
        \/ RunQueryStayPending(u)

Spec == Init /\ [][Next]_vars

\* ------------------------------------------- run_query on its own
\* max_wait_minutes and poll_interval a caller may pass
MaxWaitMinutesArgs == {0, 1, 2}
PollIntervalArgs == {40, 60, 90}

InitPoll ==
    /\ conv = [u \in Users |-> END]
    /\ user_data = [u \in Users |-> EmptyDict]
    /\ queue = <<>>
    /\ out = [u \in Users |-> NoOut]
    /\ \E m \in MaxWaitMinutesArgs, p \in PollIntervalArgs :
           run = [u \in Users |->
                     IF u = "u1"
                     THEN RunQueryCall("none", "TOP_TRADERS_QUERY",
                                       [CA |-> CA_A], m, p)
                     ELSE IdleRun]

NextPoll ==
    \E u \in Users :
        \/ RunQueryExecute(u)
        \/ RunQueryStatus(u)
        \/ RunQuerySleep(u)
        \/ RunQueryResults(u)
        \/ RunQueryTimeout(u)
        \/ RunQueryStayPending(u)

SpecPoll == InitPoll /\ [][NextPoll]_vars

\* the worker thread is scheduled and every request it makes is answered
SpecPollFair == SpecPoll /\ WF_vars(NextPoll)

\* --------------------------------------- two users talking to the bot
\* Two users running trades flows side by side.  What each of them sends:
\* the Trades button and Cancel, and an address and a timestamp of their
\* own
TextsOf(u) == IF u = "u1" THEN {CA_A, TS_1} ELSE {CA_B, TS_2}

UpdatesOfUsers(u) ==
    {upd \in UpdatesOf(u) :
        \/ upd.kind = "callback" /\ upd.data \in {"trades", "cancel"}
        \/ upd.kind = "text" /\ upd.text \in TextsOf(u)}

DeliverUsers(u) ==
    /\ Len(queue) < MaxQueue
    /\ \E upd \in UpdatesOfUsers(u) : queue' = Append(queue, upd)
    /\ UNCHANGED <<conv, user_data, run, out>>

NextUsers ==
    \E u \in Users :
        \/ DeliverUsers(u)
        \/ ButtonHandler(u)
        \/ AskStart(u)
        \/ AskEnd(u)
        \/ FetchTrades(u)
        \/ FetchTradesFinish(u)
        \/ CancelCallback(u)
        \/ Unhandled(u)
        \/ RunQueryExecute(u)
        \/ RunQueryStatus(u)
        \/ RunQuerySleep(u)
        \/ RunQueryResults(u)
        \/ RunQueryTimeout(u)
        \/ RunQueryStayPending(u)

SpecUsers == Init /\ [][NextUsers]_vars

\* ------------------------------------------------ claims on run_query
Last(s) == s[Len(s)]

\* the budget in seconds, as the loop test computes it
MaxWait(r) == r.max_wait_minutes * 60

AllNonTerminal(obs) == \A i \in 1..Len(obs) : obs[i] \in NonTerminalStates

\* C1: a non-terminal state (PENDING, RUNNING) never makes run_query fail,
\* it leads to a sleep and back to the loop test; once a terminal state
\* (COMPLETED, FAILED, CANCELLED) has been observed, run_query makes no
\* further status check and no further sleep for that execution.
C1_NonTerminalSleepsTerminalStops ==
    \A u \in Users :
        LET r == run[u]
            n == Len(r.obs)
        IN  /\ \A i \in 1..(n - 1) : r.obs[i] \in NonTerminalStates
            /\ r.err = "QueryFailed" =>
                   n > 0 /\ Last(r.obs) \in FailedStates
            /\ (n > 0 /\ Last(r.obs) \in NonTerminalStates) =>
                   \/ r.pc = "sleep" /\ r.nSleep = n - 1
                   \/ r.pc = "while" /\ r.nSleep = n
                   \/ /\ r.pc = "raised"
                      /\ r.err \in {"TimeoutError", "TransportError"}
                      /\ r.nSleep = n
            /\ (n > 0 /\ Last(r.obs) \notin NonTerminalStates) =>
                   /\ r.pc \in {"get_results", "returned", "raised"}
                   /\ r.nStatus = n
                   /\ r.nSleep = n - 1

\* a run that saw RUNNING, slept, saw COMPLETED and stopped there
C1_Witness ==
    \E u \in Users :
        /\ run[u].obs = <<"QUERY_STATE_RUNNING", "QUERY_STATE_COMPLETED">>
        /\ run[u].pc = "returned"
        /\ run[u].nSleep = 1

\* C2: with maxWait = k * pollInterval (k >= 1) and a status sequence that
\* never reaches a terminal state, run_query fails with the timeout error
\* after exactly k status checks (3 checks for maxWait = 3 * pollInterval).
C2_TimeoutAfterExactlyKChecks ==
    \A u \in Users :
        LET r == run[u]
            k == MaxWait(r) \div r.poll_interval
        IN  ( /\ r.pc \notin {"idle", "execute_query"}
              /\ r.poll_interval > 0
              /\ k >= 1
              /\ MaxWait(r) = k * r.poll_interval
              /\ AllNonTerminal(r.obs)
              /\ r.err # "TransportError" ) =>
                /\ r.nStatus <= k
                /\ r.err = "TimeoutError" => r.nStatus = k
                /\ (r.pc = "while" /\ r.nStatus = k) =>
                       r.waited >= MaxWait(r)
                /\ (r.pc = "while" /\ r.nStatus < k) =>
                       r.waited < MaxWait(r)

\* maxWait = 3 * pollInterval: timed out after three checks
C2_Witness ==
    \E u \in Users :
        /\ run[u].pc = "raised"
        /\ run[u].err = "TimeoutError"
        /\ MaxWait(run[u]) = 3 * run[u].poll_interval
        /\ run[u].nStatus = 3

\* C3: given the status sequence PENDING, PENDING, COMPLETED with poll
\* interval P, run_query sleeps exactly twice (accumulated wait >= 2 * P),
\* makes exactly three status checks, fetches the result exactly once and
\* returns what that fetch returned.
C3_PendingPendingCompleted ==
    \A u \in Users :
        LET r == run[u]
        IN  r.obs = << "QUERY_STATE_PENDING", "QUERY_STATE_PENDING",
                       "QUERY_STATE_COMPLETED" >> =>
                /\ r.nSleep = 2
                /\ r.waited >= 2 * r.poll_interval
                /\ r.nStatus = 3
                /\ r.pc \in {"get_results", "returned", "raised"}
                /\ r.pc = "get_results" => r.nFetch = 0
                /\ r.pc = "raised" =>
                       r.err = "TransportError" /\ r.nFetch = 1
                /\ r.pc = "returned" =>
                       /\ r.nFetch = 1
                       /\ Len(r.ret) = 1
                       /\ r.ret = r.fetched

C3_Witness ==
    \E u \in Users :
        /\ run[u].obs = << "QUERY_STATE_PENDING", "QUERY_STATE_PENDING",
                           "QUERY_STATE_COMPLETED" >>
        /\ run[u].pc = "returned"
        /\ run[u].ret = <<ResultPayload(Rows(1, 80))>>

\* C4: if the first status check of an execution returns FAILED, run_query
\* fails with the query-failed error, having slept zero times and fetched
\* no result.
C4_FailedOnFirstCheck ==
    \A u \in Users :
        LET r == run[u]
        IN  (Len(r.obs) >= 1 /\ r.obs[1] = "QUERY_STATE_FAILED") =>
                /\ r.pc = "raised"
                /\ r.err = "QueryFailed"
                /\ r.nStatus = 1
                /\ r.nSleep = 0
                /\ r.nFetch = 0

C4_Witness ==
    \E u \in Users :
        /\ run[u].obs = <<"QUERY_STATE_FAILED">>
        /\ run[u].err = "QueryFailed"

\* ------------------------------------------------- claims on the flows
\* the Application has just processed the update at the head of the queue
Processed == queue # <<>> /\ queue' = Tail(queue)

\* C5: in both flows, for every address whose stripped length is outside
\* [32,44], the step emits the validation error notice and ends the
\* conversation, and starts no call of run_query: no submission, status
\* check or result fetch is made for that flow.
C5_InvalidAddressEndsFlow ==
    [][\A u \in Users :
         ( /\ TextIn(u, ASK_CA_TOP) \/ TextIn(u, ASK_CA_TRADES)
           /\ Processed
           /\ LET n == Len(Strip(Head(queue).text))
              IN  n < 32 \/ n > 44 ) =>
             /\ conv'[u] = END
             /\ out'[u] = Reply("invalid_ca")
             /\ run'[u] = IdleRun
             /\ user_data' = user_data]_vars

\* the trades flow ended by an address that is too short once stripped
C5_Witness ==
    \E u \in Users :
        /\ out[u] = Reply("invalid_ca")
        /\ conv[u] = END
        /\ run[u] = IdleRun
        /\ queue = <<>>

\* C6 as stated: for every input that does not match the timestamp
\* pattern, the AWAIT_START_TIME step re-prompts and stays in
\* AWAIT_START_TIME, and the AWAIT_END_TIME step re-prompts and stays in
\* AWAIT_END_TIME; no query is submitted.
C6_AsStated ==
    [][\A u \in Users :
         ( /\ TextIn(u, ASK_START) \/ TextIn(u, ASK_END)
           /\ Processed
           /\ ~PatternMatch(Head(queue).text) ) =>
             /\ conv'[u] = conv[u]
             /\ out'[u] = Reply("invalid_format")
             /\ run'[u] = IdleRun
             /\ user_data' = user_data]_vars

\* C6 as amended: for every input that, stripped of surrounding
\* whitespace, does not match the timestamp pattern, the AWAIT_START_TIME
\* step re-prompts and stays in AWAIT_START_TIME, and the AWAIT_END_TIME
\* step re-prompts and stays in AWAIT_END_TIME; the stored values are
\* unchanged and no query is submitted.
C6_InvalidTimeReprompts ==
    [][\A u \in Users :
         ( /\ TextIn(u, ASK_START) \/ TextIn(u, ASK_END)
           /\ Processed
           /\ ~PatternMatch(Strip(Head(queue).text)) ) =>
             /\ conv'[u] = conv[u]
             /\ out'[u] = Reply("invalid_format")
             /\ run'[u] = IdleRun
             /\ user_data' = user_data]_vars

\* re-prompted for the end time, with the start time already stored
C6_Witness ==
    \E u \in Users :
        /\ conv[u] = ASK_END
        /\ out[u] = Reply("invalid_format")
        /\ "start_time" \in DOMAIN user_data[u]
        /\ run[u] = IdleRun

\* a Cancel press of u is waiting that arrived while u's query was running
CancelSentInFlight(u) ==
    \E i \in 1..Len(queue) :
        /\ queue[i].user = u
        /\ queue[i].kind = "callback"
        /\ queue[i].data = "cancel"
        /\ queue[i].sentAt >= 0

\* C7: from every non-terminal state of a flow (awaiting the address of
\* either query type, the start time, the end time, and while the query is
\* running), a cancel signal ends the flow as cancelled and emits the
\* cancellation notice.
C7_CancelFromEveryState ==
    [][\A u \in Users :
         ( /\ Processing(u)
           /\ Head(queue).kind = "callback"
           /\ Head(queue).data = "cancel"
           /\ conv[u] # END \/ Head(queue).sentAt >= 0
           /\ Processed ) =>
             /\ conv'[u] = END
             /\ out'[u].status = "cancelled"]_vars

\* what ends a call of run_query: a COMPLETED answer and its fetch, a
\* FAILED or CANCELLED answer, the budget used up, a request that failed
EndsAsRunQueryDoes(r) ==
    /\ r.pc = "returned" =>
           /\ r.obs # <<>>
           /\ Last(r.obs) = "QUERY_STATE_COMPLETED"
    /\ r.pc = "raised" =>
           r.err \in {"QueryFailed", "TimeoutError", "TransportError"}
    /\ r.err = "QueryFailed" =>
           r.obs # <<>> /\ Last(r.obs) \in FailedStates
    /\ r.err = "TimeoutError" =>
           r.waited >= MaxWait(r) /\ AllNonTerminal(r.obs)

\* C8: a cancel signal delivered while a poll is in flight does not stop
\* the poll loop: with the signal waiting, run_query still has its next
\* step to take, and it ends only the ways it ends without the signal
\* (a terminal state observed, maxWait used up, a failed request).
C8_CancelDoesNotStopPoll ==
    \A u \in Users :
        (CancelSentInFlight(u) /\ InFlight(u)) =>
            /\ EndsAsRunQueryDoes(run[u])
            /\ run[u].pc \notin {"returned", "raised"} => ENABLED RunQuery(u)

\* the Cancel press arrived before the first status check; run_query went
\* on through two pending answers to COMPLETED and returned the result
C8_Witness ==
    \E u \in Users :
        /\ CancelSentInFlight(u)
        /\ Head(queue).sentAt = 0
        /\ run[u].nStatus = 3
        /\ run[u].pc = "returned"

\* rows of a result payload, read off the payload directly
NoRows(payload) ==
    \/ "result" \notin DOMAIN payload
    \/ "rows" \notin DOMAIN payload.result
    \/ payload.result.rows = <<>>

\* a handler resumes with the value its call of run_query returned
Resumes(u) ==
    /\ run[u].handler # "none"
    /\ run[u].pc = "returned"
    /\ run'[u].pc = "idle"

\* C9: in both flows, when the completed query yields no rows, the only
\* output is the "no results" notice: no result text, no file export, and
\* the flow ends.
C9_EmptyResultOnlyNotice ==
    [][\A u \in Users :
         (Resumes(u) /\ NoRows(run[u].ret[1])) =>
             /\ out'[u] = [replies |-> <<>>, status |-> "no_results",
                           file |-> <<>>]
             /\ conv'[u] = END]_vars

\* the trades flow (its three values stored) ended with the notice alone
C9_Witness ==
    \E u \in Users :
        /\ out[u].status = "no_results"
        /\ out[u].file = <<>>
        /\ conv[u] = END
        /\ "end_time" \in DOMAIN user_data[u]

\* C10: in the trades flow, when the rendered inline text exceeds the
\* budget (4096), the "results too large" notice takes the place of the
\* inline view and the file export is still produced, with one record for
\* every row of the result (25 of 25, not the 20 rendered inline).
C10_TooLargeStillExportsAll ==
    [][\A u \in Users :
         ( /\ Resumes(u)
           /\ run[u].handler = "fetch_trades"
           /\ ~NoRows(run[u].ret[1])
           /\ MessageLen(run[u].ret[1].result.rows) > 4096 ) =>
             /\ out'[u].status = "too_large"
             /\ out'[u].replies = <<>>
             /\ Len(out'[u].file) = 1
             /\ out'[u].file[1].records = run[u].ret[1].result.rows
             /\ conv'[u] = END]_vars

\* 25 rows too long for one message: the notice, and a file of 25 records
C10_Witness ==
    \E u \in Users :
        /\ out[u].status = "too_large"
        /\ Len(out[u].file) = 1
        /\ Len(out[u].file[1].records) = 25
        /\ conv[u] = END

\* a handler resumes from its call of run_query, returned or raised
Finishes(u) ==
    /\ run[u].handler # "none"
    /\ run[u].pc \in {"returned", "raised"}
    /\ run'[u].pc = "idle"

\* C11: export is a per-flow policy: every trades flow that completes with
\* a non-empty row sequence emits exactly one file export, whether or not
\* the inline text fits the budget; no top-traders flow ever emits a file
\* export, for any result.
C11_ExportPerFlow ==
    [][\A u \in Users :
         /\ ( /\ Resumes(u)
              /\ run[u].handler = "fetch_trades"
              /\ ~NoRows(run[u].ret[1]) ) =>
                /\ Len(out'[u].file) = 1
                /\ out'[u].status \in {"results", "too_large"}
                /\ out'[u].status = "results" <=>
                       MessageLen(run[u].ret[1].result.rows) <= 4096
         /\ ( \/ Finishes(u) /\ run[u].handler = "handle_ca_top"
              \/ TextIn(u, ASK_CA_TOP) /\ Processed ) =>
                out'[u].file = <<>>]_vars

\* a trades flow whose 25 rows fit into one message, and its one file
C11_Witness ==
    \E u \in Users :
        /\ out[u].status = "results"
        /\ Len(out[u].file) = 1
        /\ Len(out[u].file[1].records) = 25
        /\ conv[u] = END

\* C12: in both flows, whenever the poller ends in a query-failed error, a
\* timeout, or a transport error (at submit, status check or result
\* fetch), the flow step reports an inline error notice to the user, the
\* flow reaches its terminal state, and no second submission is made for
\* that flow instance (at most one submit per flow).
C12_PollerErrorEndsFlow ==
    [][\A u \in Users :
         /\ run[u].nSubmit <= 1
         /\ (Finishes(u) /\ run[u].pc = "raised") =>
                /\ run[u].err \in
                       {"QueryFailed", "TimeoutError", "TransportError"}
                /\ run[u].nSubmit = 1
                /\ out'[u] = [replies |-> <<>>, status |-> "error",
                              file |-> <<>>]
                /\ conv'[u] = END
                /\ run'[u] = IdleRun]_vars

\* the trades flow ended by an error notice
C12_Witness ==
    \E u \in Users :
        /\ out[u].status = "error"
        /\ conv[u] = END
        /\ run[u] = IdleRun
        /\ "end_time" \in DOMAIN user_data[u]

\* the values a trades flow collects
SessionKeys == {"contract_address", "start_time", "end_time"}

\* C13: whenever a user's flow has reached a terminal state (success,
\* no-results, error, or explicit cancellation), that user's SessionContext
\* has been discarded: it no longer holds the contract address, start time
\* or end time collected during the flow.
C13_ContextDiscardedAtEnd ==
    \A u \in Users :
        (conv[u] = END /\ run[u].handler = "none") =>
            (DOMAIN user_data[u]) \cap SessionKeys = {}

\* C14: when maxWait is smaller than one pollInterval and the status is
\* non-terminal, run_query performs a single status check only and then
\* fails with the timeout error.
C14_SingleCheckThenTimeout ==
    \A u \in Users :
        LET r == run[u]
        IN  ( /\ r.pc \notin {"idle", "execute_query"}
              /\ MaxWait(r) < r.poll_interval
              /\ AllNonTerminal(r.obs)
              /\ r.err # "TransportError" ) =>
                /\ r.nStatus <= 1
                /\ r.err = "TimeoutError" => r.nStatus = 1

\* C15: the wait budget is checked only after a completed sleep: whenever
\* run_query fails with the timeout error, the accumulated wait is at
\* least maxWait and strictly less than maxWait + pollInterval, and no
\* sleep is ever cut short (a sleep once begun is completed and counted
\* in full; the timeout is raised at the loop test, never out of a sleep).
C15_TimeoutWithinOneInterval ==
    [][\A u \in Users :
         LET r == run[u]
             q == run'[u]
         IN  /\ q.waited = q.nSleep * q.poll_interval
             /\ r.pc = "sleep" =>
                    /\ q.pc = "while"
                    /\ q.nSleep = r.nSleep + 1
                    /\ q.waited = r.waited + r.poll_interval
             /\ (q.err = "TimeoutError" /\ r.err # "TimeoutError") =>
                    /\ r.pc = "while"
                    /\ q.waited = r.waited
                    /\ q.waited >= MaxWait(q)
                    /\ q.waited < MaxWait(q) + q.poll_interval]_vars

\* a budget of 60 s polled every 40 s: timed out with 80 s waited
C15_Witness ==
    \E u \in Users :
        /\ run[u].err = "TimeoutError"
        /\ MaxWait(run[u]) = 60
        /\ run[u].poll_interval = 40
        /\ run[u].nSleep = 2
        /\ run[u].waited = 80

\* C18: for every status sequence, run_query calls the result fetch at
\* most once per execution, and only immediately after a status check of
\* that same execution returned COMPLETED; it never fetches results after
\* FAILED, CANCELLED or a timeout, and never before the first status check.
C18_FetchOnlyAfterCompleted ==
    \A u \in Users :
        LET r == run[u]
            n == Len(r.obs)
        IN  /\ r.nFetch <= 1
            /\ (r.nFetch = 1 \/ r.pc = "get_results") =>
                   /\ n >= 1
                   /\ Last(r.obs) = "QUERY_STATE_COMPLETED"
                   /\ r.nStatus = n
                   /\ r.nSleep = n - 1
            /\ r.err \in {"QueryFailed", "TimeoutError"} => r.nFetch = 0
            /\ (n >= 1 /\ Last(r.obs) \in FailedStates) =>
                   r.nFetch = 0 /\ r.pc = "raised"
            /\ r.nStatus = 0 => r.nFetch = 0
            /\ Len(r.fetched) = r.nFetch \/ r.err = "TransportError"

\* COMPLETED on the second check, one fetch, its payload returned
C18_Witness ==
    \E u \in Users :
        /\ run[u].obs = <<"QUERY_STATE_PENDING", "QUERY_STATE_COMPLETED">>
        /\ run[u].nFetch = 1
        /\ run[u].pc = "returned"

\* status checks a budget of maxWait allows at one per pollInterval
MaxChecks(r) == (MaxWait(r) + r.poll_interval - 1) \div r.poll_interval

\* run_query has ended, in exactly one of its four ways
Ended(r) ==
    \/ /\ r.pc = "returned"
       /\ r.err = "none"
       /\ Len(r.ret) = 1
    \/ /\ r.pc = "raised"
       /\ r.err \in {"QueryFailed", "TimeoutError", "TransportError"}
       /\ r.ret = <<>>

\* what holds of a call of run_query at every moment
BoundedPoll(r) ==
    /\ r.poll_interval > 0
    /\ r.nSubmit <= 1
    /\ r.pc # "execute_query" => r.nSubmit = 1
    /\ r.nStatus <= MaxChecks(r)
    /\ r.nSleep <= r.nStatus
    /\ r.pc \in {"returned", "raised"} => Ended(r)

\* C19: for every pollInterval > 0, every finite maxWait and every
\* sequence of status responses, run_query submits exactly once and
\* eventually ends in exactly one of: returning results, the query-failed
\* error, the timeout error, or a transport error; it never polls forever
\* (it makes at most one status check per pollInterval of its budget).
C19_SubmitsOnceAndEnds ==
    /\ [](BoundedPoll(run["u1"]))
    /\ <>(Ended(run["u1"]))
    /\ [][Ended(run["u1"]) => run' = run]_vars

\* ended by the timeout after all three checks a budget of 120 s allows
\* at 40 s each
C19_Witness ==
    /\ Ended(run["u1"])
    /\ run["u1"].err = "TimeoutError"
    /\ run["u1"].nSubmit = 1
    /\ run["u1"].nStatus = 3
    /\ MaxChecks(run["u1"]) = 3

\* the value the store of u holds under key k, <<>> when it holds none
Stored(d, k) == IF k \in DOMAIN d THEN <<d[k]>> ELSE <<>>

\* C20: across any sequence of flows run by the same user, the parameters
\* submitted by a trades query are exactly the address, start time and end
\* time validated in the current flow instance; a value left in the
\* per-user store by an earlier flow is never submitted, because the
\* address, start and end are each written before the query is issued.
\* Step by step: ASK_START is entered only by ask_start storing the
\* address just validated, ASK_END only by ask_end storing the start time
\* just validated, neither value changes while the flow stays in ASK_START
\* or ASK_END, and the query is submitted only from ASK_END, with these
\* two values and the end time just validated.
C20_SubmitsCurrentFlowValues ==
    [][\A u \in Users :
         LET d == user_data[u]
             e == user_data'[u]
         IN  /\ (conv'[u] = ASK_START /\ conv[u] # ASK_START) =>
                    /\ TextIn(u, ASK_CA_TRADES)
                    /\ Stored(e, "contract_address") =
                           <<Strip(Head(queue).text)>>
                    /\ ValidCaLen(Strip(Head(queue).text))
             /\ (conv'[u] = ASK_END /\ conv[u] # ASK_END) =>
                    /\ TextIn(u, ASK_START)
                    /\ Stored(e, "start_time") = <<Strip(Head(queue).text)>>
                    /\ PatternMatch(Strip(Head(queue).text))
             /\ (conv[u] \in {ASK_START, ASK_END}
                     /\ conv'[u] \in {ASK_START, ASK_END}) =>
                    Stored(e, "contract_address") =
                        Stored(d, "contract_address")
             /\ (conv[u] = ASK_END /\ conv'[u] = ASK_END) =>
                    Stored(e, "start_time") = Stored(d, "start_time")
             /\ (run[u].query_id # "TRADES_QUERY"
                     /\ run'[u].query_id = "TRADES_QUERY") =>
                    /\ TextIn(u, ASK_END)
                    /\ PatternMatch(Strip(Head(queue).text))
                    /\ Stored(e, "end_time") = <<Strip(Head(queue).text)>>
                    /\ <<run'[u].params["contract address"]>> =
                           Stored(d, "contract_address")
                    /\ <<run'[u].params["start time"]>> =
                           Stored(d, "start_time")
                    /\ run'[u].params["end time"] = Strip(Head(queue).text)
                    /\ DOMAIN run'[u].params =
                           {"contract address", "start time", "end time"}
                    /\ run'[u].nSubmit = 0]_vars

\* a later flow about to submit: the store still holds the end time (TS_2)
\* of an earlier flow, while this flow has validated the address CA_B and
\* the start time TS_1 and its end time TS_1 waits to be handled
C20_Witness ==
    \E u \in Users :
        /\ conv[u] = ASK_END
        /\ Stored(user_data[u], "end_time") = <<Strip(TS_2)>>
        /\ Stored(user_data[u], "contract_address") = <<Strip(CA_B)>>
        /\ Stored(user_data[u], "start_time") = <<TS_1>>
        /\ queue = <<Message(u, TS_1)>>

\* ------------------------------------------------ claims on two users
\* the step is one of u's: an update of u handled, or u's query advancing
StepOf(u) ==
    \/ Processing(u) /\ Processed
    \/ run'[u] # run[u]

\* the values u has to enter, as the handlers read them
EnteredBy(u) == {Strip(t) : t \in TextsOf(u)}

\* C16: session state is partitioned by user: under any interleaving of
\* flow steps of two different users, a step taken by one user leaves the
\* other user's conversation state and SessionContext (contract address,
\* start time, end time) unchanged, and each user's submitted query
\* parameters are the values that user entered.
C16_PartitionedByUser ==
    [][\A u \in Users :
         /\ StepOf(u) =>
                \A v \in Users \ {u} :
                    /\ conv'[v] = conv[v]
                    /\ user_data'[v] = user_data[v]
                    /\ run'[v] = run[v]
         /\ \A k \in DOMAIN user_data'[u] :
                user_data'[u][k] \in EnteredBy(u)
         /\ run'[u].query_id = "TRADES_QUERY" =>
                /\ \A k \in DOMAIN run'[u].params :
                       run'[u].params[k] \in EnteredBy(u)
                /\ run'[u].params =
                       TradesParams(user_data'[u]["contract_address"],
                                    user_data'[u]["start_time"],
                                    user_data'[u]["end_time"])]_vars

\* u2's query submitted with u2's three values while u1 is in the middle
\* of a flow of its own, its address and start time stored
C16_Witness ==
    /\ conv["u1"] = ASK_END
    /\ user_data["u1"] =
           [contract_address |-> CA_A, start_time |-> TS_1]
    /\ run["u2"].pc = "while"
    /\ run["u2"].nSubmit = 1
    /\ run["u2"].params =
           TradesParams(Strip(CA_B), Strip(TS_2), Strip(TS_2))

\* a handler of the Application takes the update at the head of the queue
HandleUpdate(v) ==
    \/ Start(v)
    \/ ButtonHandler(v)
    \/ HandleCaTop(v)
    \/ AskStart(v)
    \/ AskEnd(v)
    \/ FetchTrades(v)
    \/ CancelCallback(v)

\* some handler is registered for the update at the head of the queue
HasHandler(v) ==
    LET upd == Head(queue)
    IN  \/ upd.kind = "command"
        \/ upd.kind = "callback" /\ conv[v] = END
        \/ upd.kind = "callback" /\ upd.data = "cancel"
        \/ upd.kind = "text" /\ conv[v] # END

\* C17: the poll loop runs on a separate worker while the triggering flow
\* step is suspended awaiting it, so the transport's event-handling path
\* is not occupied by the wait: while one user's poll is sleeping, an
\* event from a different user can be handled and that user's flow can
\* advance before the first user's poll finishes.
C17_OtherUserHandledDuringPoll ==
    \A u \in Users : \A v \in Users \ {u} :
        ( /\ run[u].pc = "sleep"
          /\ queue # <<>>
          /\ Head(queue).user = v
          /\ HasHandler(v) ) =>
            ENABLED HandleUpdate(v)

=============================================================================
